---------------------------- MODULE Spec2Model ----------------------------
(***************************************************************************)
(* The fixed-size thread pool of src/.history/src/lib_20240703212635.rs:   *)
(* ThreadPool::new, ThreadPool::execute, Drop for ThreadPool and the loop  *)
(* of Worker::new, over an mpsc channel whose Receiver sits behind an      *)
(* Arc<Mutex<..>> shared by the worker threads.                            *)
(***************************************************************************)
EXTENDS Integers, Sequences, FiniteSets, TLC

\* Largest pool size handed to ThreadPool::new (0 is the rejected size).
MaxSize == 2
\* Number of jobs the callers hand to ThreadPool::execute.
MaxJobs == 3

Jobs == 1..MaxJobs

\* No worker holds the receiver mutex.
NoHolder == -1

VARIABLES
  size,        \* the argument of ThreadPool::new
  ownerpc,     \* where the pool's owner is: in new, holding the pool, in drop
  workers,     \* ThreadPool.workers: Vec<Worker>, records [id, thread]
  sender,      \* the channel's Sender: absent / local (in new) / pool (Some) / dropped
  queue,       \* the channel's buffer of jobs, oldest first
  mutex,       \* the worker holding the MutexGuard of the receiver, or NoHolder
  poisoned,    \* the receiver mutex is poisoned
  wpc,         \* position of each spawned worker thread, by worker id
  cur,         \* the job a worker thread is invoking (0: none)
  runs,        \* how many times each job has been invoked
  done,        \* jobs whose invocation has returned
  faulty,      \* the jobs whose body panics when invoked
  execResult,  \* outcome of the execute call that carried each job
  joinIdx,     \* index of drop's loop over self.workers
  joined,      \* ids of the workers whose thread drop has joined
  backlog,     \* history: the jobs still buffered when drop took the sender
  pending,     \* main: what listener.incoming() yielded and main has not used yet
  stream,      \* the TcpStream moved into each job's closure (NoStream: a plain closure)
  files,       \* the served files: contents by file name, or Missing
  response     \* what each connection's job wrote to its stream

vars == <<size, ownerpc, workers, sender, queue, mutex, poisoned, wpc, cur,
          runs, done, faulty, execResult, joinIdx, joined, backlog,
          pending, stream, files, response>>

\* The state of the server program around the pool (main.rs).
httpVars == <<pending, stream, files, response>>

WorkerIds == DOMAIN wpc

\* A worker thread has finished: it left its loop or it unwound from a panic.
ThreadFinished(w) == wpc[w] \in {"exited", "panicked"}

\* thread.join() returns once the thread has finished
JoinWithoutWaiting(w) == TRUE
JoinReturns(w) == ThreadFinished(w)

\* The Receiver lives in an Arc owned by new's local and by each worker
\* closure; once new has returned it is alive while some worker thread is.
ReceiverAlive ==
  \/ ownerpc = "spawning"
  \/ \E w \in WorkerIds : ~ThreadFinished(w)

\* assert!(size > 0)
AssertSizeRemoved(n) == TRUE
AssertSize(n) == n > 0

\* for id in 0..size: has the loop of new run to its end
SpawnDoneOffByOne == Len(workers) >= size - 1
SpawnDone == Len(workers) >= size

\* mpsc send: the job goes to the tail of the buffer
EnqueueFront(q, j) == <<j>> \o q
Enqueue(q, j) == Append(q, j)

\* mpsc recv returns Err only when every Sender is gone and the buffer is empty
RecvDisconnectedEarly == sender = "dropped"
RecvDisconnected == sender = "dropped" /\ queue = <<>>

\* `receiver.lock().unwrap().recv()` is a whole statement: the temporary
\* guard is dropped at its end, before the match that invokes the job.
GuardHeldOverJob(w) == w
GuardAfterRecv(w) == NoHolder

\* the closure of thread::spawn is `loop { .. }`: after a job, lock again
AfterJobLeave == "exited"
AfterJob == "lock"

\* for worker in &mut self.workers: has drop's loop run to its end
JoinLoopDoneEarly == joinIdx >= 1
JoinLoopDone == joinIdx >= Len(workers)

\* self.sender.as_ref().unwrap(): is there a Sender in the pool
SenderPresentAlways == TRUE
SenderPresent == sender = "pool"

-----------------------------------------------------------------------------
\* The connection handler of src/.history/src/main_20240703214044.rs.  Text
\* is a sequence of tokens: a chunk of characters is a string, and the
\* carriage return and the line feed are tokens of their own; a file's
\* contents is a sequence of bytes.

\* ThreadPool::new(4)
MainPoolSize == 4
\* Duration::from_secs(5)
SleepSecs == 5

CR == "\r"
LF == "\n"
\* a byte sequence that is not UTF-8
BadUtf8 == "<bad-utf8>"

\* A closure that owns no stream; the Err item of listener.incoming().
NoStream == [kind |-> "none", data |-> <<>>, writable |-> FALSE]
AcceptError == [kind |-> "error", data |-> <<>>, writable |-> FALSE]
\* A stream of a client that sent `data`.
Conn(data, writable) == [kind |-> "stream", data |-> data, writable |-> writable]

\* A file that cannot be read, and a file with its contents.
Missing == [present |-> FALSE, contents |-> <<>>]
File(contents) == [present |-> TRUE, contents |-> contents]

\* Nothing was written for the job.
NoResponse == [outcome |-> "none", line |-> <<>>, slept |-> 0, written |-> <<>>]

\* lines().next() gave None at the end of the stream, or Some(Err(..)).
NoLine == [read |-> "eof", text |-> <<>>]
ReadError == [read |-> "error", text |-> <<>>]

RootLine == <<"GET / HTTP/1.1">>
SleepLine == <<"GET /sleep HTTP/1.1">>

\* What a client may have sent, and whether the stream can be written to.
Streams ==
  { Conn(RootLine \o <<CR, LF>>, TRUE),
    Conn(SleepLine \o <<CR, LF, "Host: x", CR, LF>>, TRUE),
    Conn(<<"GET /nope HTTP/1.1", LF>>, TRUE),
    Conn(RootLine \o <<" ", CR, LF>>, TRUE),
    Conn(RootLine \o <<CR>>, FALSE),
    Conn(<<BadUtf8, LF>>, TRUE),
    Conn(<<>>, TRUE) }

\* What the two served files may hold.
FileStates ==
  { "hello.html" :> File(<<60, 104, 62>>) @@ "404.html" :> Missing,
    "hello.html" :> Missing @@ "404.html" :> File(<<52, 48, 52, 33>>),
    "hello.html" :> File(<<60, 104, 62>>) @@ "404.html" :> File(<<52, 48, 52, 33>>),
    "hello.html" :> File(<<>>) @@ "404.html" :> File(<<52, 48, 52, 33>>) }

\* buf_reader.lines().next(): the text up to the first line feed, without
\* the line feed and without a carriage return right before it; the rest of
\* the text when there is no line feed; nothing at the end of the stream.
FirstLine(data) ==
  LET feeds == {i \in 1..Len(data) : data[i] = LF}
      first == CHOOSE i \in feeds : \A k \in feeds : i <= k
      line  == IF feeds = {} THEN data ELSE SubSeq(data, 1, first - 1)
  IN  IF data = <<>> THEN NoLine
      ELSE IF \E i \in 1..Len(line) : line[i] = BadUtf8 THEN ReadError
      ELSE IF feeds # {} /\ Len(line) > 0 /\ line[Len(line)] = CR
        THEN [read |-> "line", text |-> SubSeq(line, 1, Len(line) - 1)]
        ELSE [read |-> "line", text |-> line]

\* match &request_line[..]: the status line, the file and the delay
RoutePrefixMatch(line) ==
  IF Len(line) >= 1 /\ <<line[1]>> = <<"GET / HTTP/1.1">>
    THEN [status |-> "HTTP/1.1 200 OK", filename |-> "hello.html", sleep |-> 0]
  ELSE IF Len(line) >= 1 /\ <<line[1]>> = <<"GET /sleep HTTP/1.1">>
    THEN [status |-> "HTTP/1.1 200 OK", filename |-> "hello.html", sleep |-> 5]
  ELSE [status |-> "HTTP/1.1 404 NOT FOUND", filename |-> "404.html", sleep |-> 0]
Route(line) ==
  IF line = RootLine
    THEN [status |-> "HTTP/1.1 200 OK", filename |-> "hello.html", sleep |-> 0]
  ELSE IF line = SleepLine
    THEN [status |-> "HTTP/1.1 200 OK", filename |-> "hello.html",
          sleep |-> SleepSecs]
  ELSE [status |-> "HTTP/1.1 404 NOT FOUND", filename |-> "404.html", sleep |-> 0]

\* format!("{status_line}\r\nContent-Length: {length}\r\n\r\n{contents}")
ContentLength(contents) == Len(contents)
FormatResponse(status, contents) ==
  <<status, CR, LF, "Content-Length: ", ContentLength(contents), CR, LF, CR, LF>>
    \o contents

\* handle_connection(stream): the request line it read, the seconds it
\* slept and the text it wrote, or a panic at one of its unwraps.
HandleConnection(s, fs) ==
  LET got == FirstLine(s.data) IN
  IF got.read # "line"
    THEN [outcome |-> "panic", line |-> <<>>, slept |-> 0, written |-> <<>>]
  ELSE LET r == Route(got.text) IN
    IF ~fs[r.filename].present
      THEN [outcome |-> "panic", line |-> got.text, slept |-> r.sleep,
            written |-> <<>>]
    ELSE IF ~s.writable
      THEN [outcome |-> "panic", line |-> got.text, slept |-> r.sleep,
            written |-> <<>>]
    ELSE [outcome |-> "ok", line |-> got.text, slept |-> r.sleep,
          written |-> FormatResponse(r.status, fs[r.filename].contents)]

\* The body of job j panics: a plain closure that is one of the faulty ones,
\* or a connection job whose handler panics.
Panics(j) ==
  IF stream[j] = NoStream
    THEN j \in faulty
    ELSE HandleConnection(stream[j], files).outcome = "panic"

-----------------------------------------------------------------------------
Init ==
  /\ size \in 0..MaxSize
  /\ faulty \in SUBSET Jobs
  /\ ownerpc = "start"
  /\ workers = <<>>
  /\ sender = "absent"
  /\ queue = <<>>
  /\ mutex = NoHolder
  /\ poisoned = FALSE
  /\ wpc = <<>>
  /\ cur = <<>>
  /\ runs = [j \in Jobs |-> 0]
  /\ done = {}
  /\ execResult = [j \in Jobs |-> "none"]
  /\ joinIdx = 0
  /\ joined = {}
  /\ backlog = {}
  /\ pending = NoStream
  /\ stream = [j \in Jobs |-> NoStream]
  /\ files = [f \in {"hello.html", "404.html"} |-> Missing]
  /\ response = [j \in Jobs |-> NoResponse]

\* ThreadPool::new up to the creation of the channel and the Arc<Mutex<..>>.
NewBegin ==
  /\ ownerpc = "start"
  /\ IF AssertSize(size)
       THEN /\ ownerpc' = "spawning"
            /\ sender' = "local"
       ELSE /\ ownerpc' = "new_panicked"
            /\ UNCHANGED sender
  /\ UNCHANGED <<size, workers, queue, mutex, poisoned, wpc, cur, runs, done,
                 faulty, execResult, joinIdx, joined, backlog>>
  /\ UNCHANGED httpVars

\* One turn of `for id in 0..size`: Worker::new(id, ..) spawns the thread.
SpawnWorker ==
  /\ ownerpc = "spawning"
  /\ ~SpawnDone
  /\ LET id == Len(workers) IN
       /\ workers' = Append(workers, [id |-> id, thread |-> "Some"])
       /\ wpc' = (id :> "lock") @@ wpc
       /\ cur' = (id :> 0) @@ cur
  /\ UNCHANGED <<size, ownerpc, sender, queue, mutex, poisoned, runs, done,
                 faulty, execResult, joinIdx, joined, backlog>>
  /\ UNCHANGED httpVars

\* ThreadPool { workers, sender: Some(sender) }
NewReturn ==
  /\ ownerpc = "spawning"
  /\ SpawnDone
  /\ ownerpc' = "open"
  /\ sender' = "pool"
  /\ UNCHANGED <<size, workers, queue, mutex, poisoned, wpc, cur, runs, done,
                 faulty, execResult, joinIdx, joined, backlog>>
  /\ UNCHANGED httpVars

\* The next job handed to execute.
NextJob == 1 + Cardinality({j \in Jobs : execResult[j] # "none"})

\* The pool exists and can be called: returned by new, not yet out of drop.
PoolExists == ownerpc \in {"open", "joining", "join_wait"}

\* mpsc::channel() is the unbounded channel: send never waits for room.
SendWaitsForRoom(q) == Len(q) < 1
SendCanProceed(q) == TRUE

\* ThreadPool::execute(f) with the job j boxed from f; the closure f owns
\* the stream main accepted, if any.
Execute(j) ==
  /\ PoolExists
  /\ SendCanProceed(queue)
  /\ j = NextJob
  /\ j \in Jobs
  /\ IF ~SenderPresent
       THEN \* unwrap of None
            /\ execResult' = [execResult EXCEPT ![j] = "panic_no_sender"]
            /\ UNCHANGED queue
       ELSE IF ~ReceiverAlive
         THEN \* send returns Err(SendError), unwrap panics
            /\ execResult' = [execResult EXCEPT ![j] = "panic_send"]
            /\ UNCHANGED queue
         ELSE
            /\ execResult' = [execResult EXCEPT ![j] = "ok"]
            /\ queue' = Enqueue(queue, j)
  /\ stream' = [stream EXCEPT ![j] = pending]
  /\ pending' = NoStream
  /\ UNCHANGED <<size, ownerpc, workers, sender, mutex, poisoned, wpc, cur,
                 runs, done, faulty, joinIdx, joined, backlog, files, response>>

\* The buffer after worker w's thread has ended: the Receiver is dropped with
\* the last Arc, and the jobs still buffered are dropped with it.
QueueAfterEnd(w, q) ==
  IF ownerpc # "spawning" /\ (\A v \in WorkerIds \ {w} : ThreadFinished(v))
    THEN <<>>
    ELSE q

\* Mutex::lock blocks while another thread holds the guard.
MutexFreeAlways == TRUE
MutexFree == mutex = NoHolder

\* receiver.lock().unwrap(): take the mutex, or panic when it is poisoned.
WorkerLock(w) ==
  /\ w \in WorkerIds
  /\ wpc[w] = "lock"
  /\ MutexFree
  /\ IF poisoned
       THEN /\ wpc' = [wpc EXCEPT ![w] = "panicked"]
            /\ queue' = QueueAfterEnd(w, queue)
            /\ UNCHANGED mutex
       ELSE /\ wpc' = [wpc EXCEPT ![w] = "recv"]
            /\ mutex' = w
            /\ UNCHANGED queue
  /\ UNCHANGED <<size, ownerpc, workers, sender, poisoned, cur, runs, done,
                 faulty, execResult, joinIdx, joined, backlog>>
  /\ UNCHANGED httpVars

\* recv() returns Ok(job); the guard is dropped; the match arm invokes job().
WorkerRecvOk(w) ==
  /\ w \in WorkerIds
  /\ wpc[w] = "recv"
  /\ mutex = w
  /\ queue # <<>>
  /\ LET job == Head(queue) IN
       /\ cur' = [cur EXCEPT ![w] = job]
       /\ runs' = [runs EXCEPT ![job] = @ + 1]
  /\ queue' = Tail(queue)
  /\ mutex' = GuardAfterRecv(w)
  /\ wpc' = [wpc EXCEPT ![w] = "run"]
  /\ UNCHANGED <<size, ownerpc, workers, sender, poisoned, done, faulty,
                 execResult, joinIdx, joined, backlog>>
  /\ UNCHANGED httpVars

\* recv() returns Err: the worker breaks out of its loop and the thread ends.
WorkerRecvErr(w) ==
  /\ w \in WorkerIds
  /\ wpc[w] = "recv"
  /\ mutex = w
  /\ RecvDisconnected
  /\ mutex' = NoHolder
  /\ wpc' = [wpc EXCEPT ![w] = "exited"]
  /\ queue' = QueueAfterEnd(w, queue)
  /\ UNCHANGED <<size, ownerpc, workers, sender, poisoned, cur, runs, done,
                 faulty, execResult, joinIdx, joined, backlog>>
  /\ UNCHANGED httpVars

\* job() returns; the worker goes round its loop.
JobReturn(w) ==
  /\ w \in WorkerIds
  /\ wpc[w] = "run"
  /\ ~Panics(cur[w])
  /\ done' = done \cup {cur[w]}
  /\ response' = IF stream[cur[w]] = NoStream
                   THEN response
                   ELSE [response EXCEPT
                           ![cur[w]] = HandleConnection(stream[cur[w]], files)]
  /\ cur' = [cur EXCEPT ![w] = 0]
  /\ wpc' = [wpc EXCEPT ![w] = AfterJob]
  /\ mutex' = IF mutex = w THEN NoHolder ELSE mutex
  /\ UNCHANGED <<size, ownerpc, workers, sender, queue, poisoned, runs, faulty,
                 execResult, joinIdx, joined, backlog, pending, stream, files>>

\* job() panics: nothing catches it, so the worker thread unwinds and ends.
\* A guard alive during the unwinding poisons the mutex.
JobFault(w) ==
  /\ w \in WorkerIds
  /\ wpc[w] = "run"
  /\ Panics(cur[w])
  /\ wpc' = [wpc EXCEPT ![w] = "panicked"]
  /\ poisoned' = (poisoned \/ mutex = w)
  /\ mutex' = IF mutex = w THEN NoHolder ELSE mutex
  /\ queue' = QueueAfterEnd(w, queue)
  /\ UNCHANGED <<size, ownerpc, workers, sender, cur, runs, done, faulty,
                 execResult, joinIdx, joined, backlog>>
  /\ UNCHANGED httpVars

\* The Sender once drop has run drop(self.sender.take()).
TakenSenderKept == "pool"
TakenSender == "dropped"

\* drop(self.sender.take())
DropSender ==
  /\ ownerpc = "open"
  /\ sender' = TakenSender
  /\ ownerpc' = "joining"
  /\ joinIdx' = 0
  /\ backlog' = {queue[i] : i \in 1..Len(queue)}
  /\ UNCHANGED <<size, workers, queue, mutex, poisoned, wpc, cur, runs, done,
                 faulty, execResult, joined>>
  /\ UNCHANGED httpVars

\* The place in self.workers of the worker drop's loop is at: the loop goes
\* through the Vec from its first element.
JoinPositionReversed == Len(workers) - joinIdx
JoinPosition == joinIdx + 1

\* One turn of drop's loop up to join: worker.thread.take().
DropTakeThread ==
  /\ ownerpc = "joining"
  /\ ~JoinLoopDone
  /\ LET i == JoinPosition IN
       IF workers[i].thread = "Some"
         THEN /\ workers' = [workers EXCEPT ![i].thread = "None"]
              /\ ownerpc' = "join_wait"
              /\ UNCHANGED joinIdx
         ELSE /\ joinIdx' = joinIdx + 1
              /\ UNCHANGED <<workers, ownerpc>>
  /\ UNCHANGED <<size, sender, queue, mutex, poisoned, wpc, cur, runs, done,
                 faulty, execResult, joined, backlog>>
  /\ UNCHANGED httpVars

\* thread.join().unwrap(): blocks until the thread has finished; Err (and
\* so a panic of drop) when the thread ended by a panic.
DropJoin ==
  /\ ownerpc = "join_wait"
  /\ LET w == workers[JoinPosition].id IN
       /\ JoinReturns(w)
       /\ joined' = joined \cup {w}
       /\ IF wpc[w] = "panicked"
            THEN /\ ownerpc' = "drop_panicked"
                 /\ UNCHANGED joinIdx
            ELSE /\ ownerpc' = "joining"
                 /\ joinIdx' = joinIdx + 1
  /\ UNCHANGED <<size, workers, sender, queue, mutex, poisoned, wpc, cur,
                 runs, done, faulty, execResult, backlog>>
  /\ UNCHANGED httpVars

\* drop's loop is over: drop returns.
DropReturn ==
  /\ ownerpc = "joining"
  /\ JoinLoopDone
  /\ ownerpc' = "dropped"
  /\ UNCHANGED <<size, workers, sender, queue, mutex, poisoned, wpc, cur,
                 runs, done, faulty, execResult, joinIdx, joined, backlog>>
  /\ UNCHANGED httpVars

WorkerStep(w) ==
  \/ WorkerLock(w)
  \/ WorkerRecvOk(w)
  \/ WorkerRecvErr(w)

JobEnd(w) ==
  \/ JobReturn(w)
  \/ JobFault(w)

Next ==
  \/ NewBegin
  \/ SpawnWorker
  \/ NewReturn
  \/ \E j \in Jobs : Execute(j)
  \/ \E w \in 0..(MaxSize - 1) : WorkerStep(w)
  \/ \E w \in 0..(MaxSize - 1) : JobEnd(w)
  \/ DropSender
  \/ DropTakeThread
  \/ DropJoin
  \/ DropReturn

Spec == Init /\ [][Next]_vars

-----------------------------------------------------------------------------
\* The server program: main binds the listener, builds a pool of
\* MainPoolSize workers and hands one handle_connection job to execute for
\* every stream listener.incoming() yields.

\* Number of connections the listener yields.
MaxConns == 2

HttpInit ==
  /\ size = MainPoolSize
  /\ faulty = {}
  /\ files \in FileStates
  /\ ownerpc = "start"
  /\ workers = <<>>
  /\ sender = "absent"
  /\ queue = <<>>
  /\ mutex = NoHolder
  /\ poisoned = FALSE
  /\ wpc = <<>>
  /\ cur = <<>>
  /\ runs = [j \in Jobs |-> 0]
  /\ done = {}
  /\ execResult = [j \in Jobs |-> "none"]
  /\ joinIdx = 0
  /\ joined = {}
  /\ backlog = {}
  /\ pending = NoStream
  /\ stream = [j \in Jobs |-> NoStream]
  /\ response = [j \in Jobs |-> NoResponse]

\* main has panicked: at stream.unwrap() or inside pool.execute.
MainPanicked ==
  \/ pending = AcceptError
  \/ \E j \in Jobs : execResult[j] \in {"panic_send", "panic_no_sender"}

\* for stream in listener.incoming(): the next item, a stream or an error.
Accept(s) ==
  /\ ownerpc = "open"
  /\ ~MainPanicked
  /\ pending = NoStream
  /\ NextJob <= MaxConns
  /\ NextJob \in Jobs
  /\ pending' = s
  /\ UNCHANGED <<size, ownerpc, workers, sender, queue, mutex, poisoned, wpc,
                 cur, runs, done, faulty, execResult, joinIdx, joined,
                 backlog, stream, files, response>>

\* let stream = stream.unwrap(); pool.execute(|| handle_connection(stream));
MainExecute(j) ==
  /\ ownerpc = "open"
  /\ pending \in Streams
  /\ Execute(j)

\* A panic of main unwinds main, and the pool is dropped.
MainUnwind ==
  /\ MainPanicked
  /\ DropSender

HttpNext ==
  \/ NewBegin
  \/ SpawnWorker
  \/ NewReturn
  \/ \E s \in Streams \cup {AcceptError} : Accept(s)
  \/ \E j \in Jobs : MainExecute(j)
  \/ \E w \in 0..(MainPoolSize - 1) : WorkerStep(w)
  \/ \E w \in 0..(MainPoolSize - 1) : JobEnd(w)
  \/ MainUnwind
  \/ DropTakeThread
  \/ DropJoin
  \/ DropReturn

HttpSpec == HttpInit /\ [][HttpNext]_vars

\* Worker threads are OS threads: each one that can take a step of its loop
\* eventually does.  Nothing obliges a job to end, a caller to submit or the
\* owner to drop the pool.
FairDispatch ==
  /\ Spec
  /\ \A w \in 0..(MaxSize - 1) : WF_vars(WorkerStep(w))

\* As FairDispatch, and every job that was invoked ends.
FairSpec ==
  /\ FairDispatch
  /\ \A w \in 0..(MaxSize - 1) : WF_vars(JobEnd(w))

\* As FairSpec, and the thread that is inside drop keeps running it: it
\* takes the next handle, returns from a join whose thread has finished,
\* and returns from drop.  Nothing obliges the owner to begin the drop.
FairTeardown ==
  /\ FairSpec
  /\ WF_vars(DropTakeThread \/ DropJoin \/ DropReturn)

-----------------------------------------------------------------------------
\* Vocabulary of the properties.

\* execute enqueued the job.
Accepted(j) == execResult[j] = "ok"

AcceptedJobs == {j \in Jobs : Accepted(j)}

\* Some worker thread ended by a panic.
SomePanicked == \E w \in WorkerIds : wpc[w] = "panicked"

\* A job has ended, by returning or by a panic.
SomeEnded == done # {} \/ SomePanicked

\* Every worker of the pool is inside a job, each in a different one.
AllRunning ==
  /\ Len(workers) = size
  /\ \A w \in WorkerIds : wpc[w] = "run"
  /\ \A w, v \in WorkerIds : w # v => cur[w] # cur[v]

\* drop has begun.
TeardownBegun == ownerpc \in {"joining", "join_wait", "dropped", "drop_panicked"}

-----------------------------------------------------------------------------
C2_EventuallyExecuted ==
  \A j \in Jobs : (faulty = {} /\ Accepted(j)) ~> (j \in done)

C2_Witness ==
  /\ faulty = {}
  /\ size = MaxSize
  /\ ownerpc = "open"
  /\ AcceptedJobs = Jobs
  /\ done = Jobs

\* C3: from the return of new until drop the pool holds exactly `size`
\* workers with ids 0..size-1 in order, each with its thread handle and its
\* own thread, and the Sender; the threads are running when new returns, and
\* the number of workers stays `size` through teardown.
C3_PoolShape ==
  /\ ownerpc = "open" =>
       /\ size >= 1
       /\ Len(workers) = size
       /\ WorkerIds = 0..(size - 1)
       /\ \A i \in 1..Len(workers) :
            workers[i].id = i - 1 /\ workers[i].thread = "Some"
       /\ sender = "pool"
       /\ NextJob = 1 => \A w \in WorkerIds : wpc[w] \in {"lock", "recv"}
  /\ TeardownBegun => Len(workers) = size /\ WorkerIds = 0..(size - 1)

C3_Witness ==
  /\ ownerpc = "open"
  /\ size = MaxSize
  /\ NextJob > 1

\* C4: new(0) panics at its assertion: no channel is created, no worker is
\* spawned and no pool is returned.
C4_ZeroRejected ==
  size = 0 =>
    /\ ownerpc \in {"start", "new_panicked"}
    /\ sender = "absent"
    /\ workers = <<>>
    /\ WorkerIds = {}
    /\ queue = <<>>

C4_Witness == size = 0 /\ ownerpc = "new_panicked"

C6_CloseKeepsBacklog ==
  /\ \A w \in WorkerIds :
       wpc[w] = "exited" => (sender = "dropped" /\ queue = <<>>)
  /\ ownerpc = "dropped" => backlog \subseteq done

C6_Witness ==
  /\ ownerpc = "dropped"
  /\ backlog # {}

\* C7: with as many jobs enqueued as the pool has workers and no job ending,
\* fair worker threads reach a state where every worker is inside a job,
\* each in a different one: a worker inside a job keeps no other worker from
\* dequeuing.
C7_NoSerialization ==
  (size >= 1 /\ Cardinality(AcceptedJobs) >= size) ~> (SomeEnded \/ AllRunning)

C7_Witness ==
  /\ size = MaxSize
  /\ AllRunning
  /\ ~SomeEnded
  /\ Cardinality(AcceptedJobs) = size
  /\ queue = <<>>

\* C8: in a pool of one worker, of two enqueued jobs the later one is not
\* invoked before the earlier one has returned.
C8_FifoOneWorker ==
  size = 1 =>
    \A a, b \in Jobs :
      (a < b /\ Accepted(a) /\ Accepted(b) /\ runs[b] >= 1) => a \in done

C8_Witness ==
  /\ size = 1
  /\ \E a, b \in done : a < b

\* C9: an execute that finds the Sender taken panics: the job is not
\* enqueued, and the buffer, the workers and the run counts are as before.
C9_ClosedSubmitFails ==
  [][\A j \in Jobs :
       (sender = "dropped" /\ execResult[j] = "none" /\ execResult'[j] # "none")
         => /\ execResult'[j] = "panic_no_sender"
            /\ queue' = queue
            /\ wpc' = wpc
            /\ workers' = workers
            /\ runs' = runs]_vars

C9_Witness == \E j \in Jobs : execResult[j] = "panic_no_sender"

BodyOf(written) == SubSeq(written, 10, Len(written))

\* C11: a job that answered its connection read that connection's first
\* line; the line "GET / HTTP/1.1" gets "HTTP/1.1 200 OK" and hello.html at
\* once, "GET /sleep HTTP/1.1" the same after the delay, any other line
\* "HTTP/1.1 404 NOT FOUND" and 404.html; the Content-Length is the length of
\* the file's contents, which follow verbatim; and every execute main has
\* called carries one accepted stream, with at most one stream waiting.
C11_HandlerMapping ==
  /\ \A j \in Jobs :
       response[j].outcome = "ok" =>
         LET r == response[j]
             w == r.written
             hello == files["hello.html"].contents
             notfound == files["404.html"].contents
         IN
         /\ stream[j].kind = "stream"
         /\ j \in done
         /\ r.line = SubSeq(stream[j].data, 1, Len(r.line))
         /\ Len(r.line) < Len(stream[j].data) =>
              stream[j].data[Len(r.line) + 1] \in {CR, LF}
         /\ Len(w) >= 9
         /\ <<w[2], w[3], w[4], w[6], w[7], w[8], w[9]>> =
              <<CR, LF, "Content-Length: ", CR, LF, CR, LF>>
         /\ w[5] = Len(BodyOf(w))
         /\ IF r.line = <<"GET / HTTP/1.1">>
              THEN w[1] = "HTTP/1.1 200 OK" /\ BodyOf(w) = hello /\ r.slept = 0
            ELSE IF r.line = <<"GET /sleep HTTP/1.1">>
              THEN w[1] = "HTTP/1.1 200 OK" /\ BodyOf(w) = hello /\ r.slept = 5
            ELSE w[1] = "HTTP/1.1 404 NOT FOUND" /\ BodyOf(w) = notfound
                 /\ r.slept = 0
  /\ \A j \in Jobs : (execResult[j] # "none") <=> (stream[j].kind = "stream")
  /\ \A j \in Jobs : response[j].outcome \in {"ok", "none"}
  /\ pending \in Streams \cup {NoStream, AcceptError}

C11_Witness ==
  \E j, k \in Jobs :
    /\ response[j].outcome = "ok"
    /\ response[j].line = <<"GET /sleep HTTP/1.1">>
    /\ response[k].outcome = "ok"
    /\ response[k].line = <<"GET / HTTP/1.1", " ">>

\* C12: with fair threads and no job that panics or runs for ever, once drop
\* has begun every worker gets the closed signal and leaves its loop, and
\* drop returns.
C12_TeardownTerminates ==
  (faulty = {} /\ TeardownBegun)
    ~> (ownerpc = "dropped" /\ \A w \in WorkerIds : wpc[w] = "exited")

C12_Witness ==
  /\ faulty = {}
  /\ size = MaxSize
  /\ ownerpc = "dropped"
  /\ backlog # {}

C14_FifoDequeue ==
  /\ \A i, k \in 1..Len(queue) : i < k => queue[i] < queue[k]
  /\ \A a, b \in Jobs :
       (a < b /\ Accepted(a) /\ Accepted(b) /\ runs[b] >= 1) => runs[a] >= 1
  /\ \A i \in 1..Len(queue) : runs[queue[i]] = 0

\* With two workers a later job has returned while an earlier one still runs.
C14_Witness ==
  /\ size >= 2
  /\ \E w \in WorkerIds :
       /\ wpc[w] = "run"
       /\ \E b \in done : cur[w] < b

\* C15: drop drops the Sender before it touches a worker; it takes each
\* worker's handle once, from Some to None, and joins each thread once, both
\* in the order of construction and only with the Sender dropped.
C15_TeardownOrder ==
  [][/\ sender' # sender /\ sender' = "dropped" =>
          /\ joined = {}
          /\ \A i \in 1..Len(workers) : workers[i].thread = "Some"
     /\ \A i \in 1..Len(workers) :
          workers'[i].thread # workers[i].thread =>
            /\ workers[i].thread = "Some"
            /\ workers'[i].thread = "None"
            /\ sender = "dropped"
            /\ \A k \in 1..(i - 1) :
                 workers[k].thread = "None" /\ workers[k].id \in joined
     /\ joined' # joined =>
          \E w \in WorkerIds \ joined :
            /\ joined' = joined \cup {w}
            /\ sender = "dropped"
            /\ workers[w + 1].thread = "None"
            /\ \A v \in 0..(w - 1) : v \in joined]_vars

C15_Witness ==
  /\ size = MaxSize
  /\ joined = WorkerIds
  /\ sender = "dropped"

\* C16: at most one worker is inside recv, and it is the one that holds the
\* receiver mutex; every other worker that wants a job is still at lock().
C16_MutualExclusion ==
  /\ Cardinality({w \in WorkerIds : wpc[w] = "recv"}) <= 1
  /\ mutex \in WorkerIds \cup {NoHolder}
  /\ \A w \in WorkerIds : wpc[w] = "recv" <=> mutex = w

C16_Witness ==
  \E w, v \in WorkerIds :
    /\ w # v
    /\ wpc[w] = "recv"
    /\ mutex = w
    /\ wpc[v] = "lock"
    /\ queue # <<>>

\* The step is the execute call that carries job j, on a pool not in drop.
ExecuteOnOpenPool(j) ==
  /\ ownerpc = "open"
  /\ execResult[j] = "none"
  /\ execResult'[j] # "none"

\* What an execute call leaves alone.
ExecuteFrame ==
  /\ workers' = workers
  /\ wpc' = wpc
  /\ cur' = cur
  /\ runs' = runs
  /\ done' = done
  /\ mutex' = mutex
  /\ sender' = sender
  /\ ownerpc' = ownerpc

C18_NoLockOverJob ==
  /\ \A w \in WorkerIds : wpc[w] \in {"run", "exited", "panicked"} => mutex # w
  /\ mutex # NoHolder => (mutex \in WorkerIds /\ wpc[mutex] = "recv")
  /\ ~poisoned

C18_Witness ==
  \E w, v \in WorkerIds :
    /\ wpc[w] = "panicked"
    /\ wpc[v] = "recv"
    /\ mutex = v

\* The jobs in the buffer, the jobs being invoked, and the jobs whose
\* invocation has ended (by returning or by a panic).
Queued == {queue[i] : i \in 1..Len(queue)}
Executing == {cur[w] : w \in {v \in WorkerIds : wpc[v] = "run"}}
Finished ==
  done \cup {cur[w] : w \in {v \in WorkerIds : wpc[v] = "panicked" /\ cur[v] # 0}}

\* Each worker is inside at most one job and each job inside a job is on one
\* worker, so no more jobs run at a time than the pool has workers.
BoundedParallelism ==
  /\ \A w, v \in WorkerIds :
       (w # v /\ wpc[w] = "run" /\ wpc[v] = "run") => cur[w] # cur[v]
  /\ Cardinality(Executing) = Cardinality({w \in WorkerIds : wpc[w] = "run"})
  /\ Cardinality(Executing) <= size

\* No job is in two of the three places, nor twice in the buffer.
OnePlaceEach ==
  /\ Len(queue) = Cardinality(Queued)
  /\ Queued \cap Executing = {}
  /\ Queued \cap Finished = {}
  /\ Executing \cap Finished = {}
  /\ (Queued \cup Executing \cup Finished) \subseteq AcceptedJobs

IdleWorker(w) == wpc[w] \in {"lock", "recv"}

\* Worker w can take its next step toward a dequeue without waiting for
\* anything: it holds the mutex with a job in the buffer, or the mutex is
\* free for it to lock.
CanAdvance(w) == ENABLED WorkerRecvOk(w) \/ ENABLED WorkerLock(w)

\* The states in which nothing is left to happen.
Terminal ==
  /\ ownerpc \in {"new_panicked", "dropped", "drop_panicked"}
  /\ \A w \in WorkerIds : ThreadFinished(w)

\* C20: no deadlock and work conservation.  Whenever the buffer is non-empty
\* and some worker is idle, an idle worker can lock or dequeue at once;
\* whenever drop waits in a join, the awaited thread has ended or some worker
\* can step; and a state with no step at all is a terminal one.
C20_NoDeadlock ==
  /\ (queue # <<>> /\ \E w \in WorkerIds : IdleWorker(w)) =>
       \E w \in WorkerIds : IdleWorker(w) /\ CanAdvance(w)
  /\ ownerpc = "join_wait" =>
       \/ JoinReturns(workers[JoinPosition].id)
       \/ \E w \in WorkerIds : ENABLED WorkerStep(w) \/ ENABLED JobEnd(w)
  /\ ~(ENABLED Next) => Terminal

C20_Witness ==
  \E w, v \in WorkerIds :
    /\ wpc[w] = "run"
    /\ wpc[v] = "lock"
    /\ mutex = NoHolder
    /\ queue # <<>>

=============================================================================
